---- MODULE Spec2Model ----
(***************************************************************************)
(* Model of the boid stepper of src/src/main.ts: the insects' positions    *)
(* and velocities, the five corrections, updatePositions and animate.      *)
(*                                                                         *)
(* Numbers are fixed point.  A length or velocity component is an integer  *)
(* count of 1/20 of a scene unit (VELOCITY_LIM 1.5 is 30, X_LIM 135 is     *)
(* 2700); the dimensionless factors are integer percentages (0.07 is 7).   *)
(* A product with a factor, an average and the rescaling of clampLength    *)
(* are computed exactly and then truncated toward zero to the 1/20 grid.   *)
(* A vector is a tuple <<x, y, z>>.                                        *)
(***************************************************************************)
EXTENDS Integers, FiniteSets, Sequences, TLC

(* Bounds of the model: the program runs 100 insects for 1000 steps. *)
INSECT_COUNT == 2
STEPS == 2
ExtraFrames == 1

(* Program constants, main.ts lines 24-36, in the units described above. *)
X_LIM == 2700
Y_LIM == 1460
Z_LIM == 1500
VELOCITY_LIM == 30
SEPARATION_RADIUS == 300
ALIGNMENT_RADIUS == 1200
COHESION_RADIUS == 1400
LIM_FACTOR == 4
SEPARATION_FACTOR == 7
ALIGNMENT_FACTOR == 5
COHESION_FACTOR == 3
NOISE_FACTOR == 50

Insects == 1..INSECT_COUNT
MaxFrames == STEPS + ExtraFrames

VARIABLES position, insectVelocities, stepCounter, frames,
          prePosition, preVelocities, applied

vars == <<position, insectVelocities, stepCounter, frames,
          prePosition, preVelocities, applied>>

----------------------------------------------------------------------------
(* Vector3 arithmetic *)

Zero == <<0, 0, 0>>
Abs(x) == IF x < 0 THEN -x ELSE x
Sgn(x) == IF x < 0 THEN -1 ELSE IF x > 0 THEN 1 ELSE 0
(* division truncating toward zero *)
TDiv(x, n) == Sgn(x) * (Abs(x) \div n)

add(a, b) == <<a[1] + b[1], a[2] + b[2], a[3] + b[3]>>
subVectors(a, b) == <<a[1] - b[1], a[2] - b[2], a[3] - b[3]>>
dot(a, b) == a[1] * b[1] + a[2] * b[2] + a[3] * b[3]
lengthSq(a) == dot(a, a)
divideScalar(a, n) == <<TDiv(a[1], n), TDiv(a[2], n), TDiv(a[3], n)>>
(* multiplyScalar by a factor given as a percentage *)
multiplyScalar(a, pct) ==
    <<TDiv(a[1] * pct, 100), TDiv(a[2] * pct, 100), TDiv(a[3] * pct, 100)>>

distanceToSquared(a, b) == lengthSq(subVectors(a, b))

(* |x| * hi / sqrt(lsq), truncated: the largest c with c * sqrt(lsq) <= |x| * hi *)
RescaleComponent(x, lsq, hi) ==
    Sgn(x) * (CHOOSE c \in 0..hi :
                 /\ c * c * lsq <= x * x * hi * hi
                 /\ (c + 1) * (c + 1) * lsq > x * x * hi * hi)

clampLength_none(v, hi) == v

(* Vector3.clampLength(0, hi): a vector longer than hi is rescaled to hi *)
clampLength(v, hi) ==
    IF lengthSq(v) <= hi * hi
    THEN v
    ELSE <<RescaleComponent(v[1], lengthSq(v), hi),
           RescaleComponent(v[2], lengthSq(v), hi),
           RescaleComponent(v[3], lengthSq(v), hi)>>

(* Vector3.angleTo(b) < PI/4.  angleTo returns PI/2 when either vector is  *)
(* zero, and acos(dot / (|a| |b|)) otherwise; the angle is below PI/4      *)
(* exactly when the cosine exceeds sqrt(1/2).                              *)
angleBelowNoiseAngle(a, b) ==
    /\ lengthSq(a) * lengthSq(b) # 0
    /\ dot(a, b) > 0
    /\ 2 * dot(a, b) * dot(a, b) > lengthSq(a) * lengthSq(b)

RECURSIVE SumOver(_, _)
SumOver(S, f) ==
    IF S = {} THEN Zero
    ELSE LET j == CHOOSE x \in S : TRUE
         IN  add(f[j], SumOver(S \ {j}, f))

----------------------------------------------------------------------------
(* Helper functions.  p is the insects' positions and v their velocities   *)
(* at the time of the call; insectList is a set of insect ids.             *)

withinDistance(p1, p2, range) == distanceToSquared(p1, p2) <= range * range

getInsectsWithinDistance(mainInsect, insectList, range, p) ==
    {i \in insectList : withinDistance(p[mainInsect], p[i], range)}

calculateAverageVelocity(insectList, v) ==
    divideScalar(SumOver(insectList, v), Cardinality(insectList))

calculateAveragePosition(insectList, p) ==
    divideScalar(SumOver(insectList, p), Cardinality(insectList))

----------------------------------------------------------------------------
(* Algorithm functions *)

getCoherenceCorrection(insect, insectList, p) ==
    LET coherenceInsects ==
            getInsectsWithinDistance(insect, insectList, COHESION_RADIUS, p)
    IN  IF Cardinality(coherenceInsects) > 0
        THEN multiplyScalar(
                 subVectors(calculateAveragePosition(coherenceInsects, p), p[insect]),
                 COHESION_FACTOR)
        ELSE Zero

getSeparationCorrection(insect, insectList, p) ==
    LET separationInsects ==
            getInsectsWithinDistance(insect, insectList, SEPARATION_RADIUS, p)
    IN  IF Cardinality(separationInsects) > 0
        THEN multiplyScalar(
                 subVectors(p[insect], calculateAveragePosition(separationInsects, p)),
                 SEPARATION_FACTOR)
        ELSE Zero

(* The vector scaled inside the if is a second, block-scoped alignmentVector *)
(* (line 178); the function returns the outer one of line 176, which no     *)
(* statement changes.                                                       *)
getAlignmentCorrection(insect, insectList, p, v) ==
    LET alignmentInsects ==
            getInsectsWithinDistance(insect, insectList, ALIGNMENT_RADIUS, p)
        alignmentVector == Zero
        innerAlignmentVector ==
            IF Cardinality(alignmentInsects) > 0
            THEN multiplyScalar(calculateAverageVelocity(alignmentInsects, v),
                                ALIGNMENT_FACTOR)
            ELSE Zero
    IN  alignmentVector

getBoundsCorrection_inclusive(pos) ==
    add(<<IF pos[1] <= -X_LIM THEN LIM_FACTOR ELSE 0,
          IF pos[2] <= -Y_LIM THEN LIM_FACTOR ELSE 0,
          IF pos[3] <= -Z_LIM THEN LIM_FACTOR ELSE 0>>,
        <<IF pos[1] >= X_LIM THEN -LIM_FACTOR ELSE 0,
          IF pos[2] >= Y_LIM THEN -LIM_FACTOR ELSE 0,
          IF pos[3] >= Z_LIM THEN -LIM_FACTOR ELSE 0>>)

getBoundsCorrection(pos) ==
    LET boundsCorrectionLess ==
            <<IF pos[1] < -X_LIM THEN LIM_FACTOR ELSE 0,
              IF pos[2] < -Y_LIM THEN LIM_FACTOR ELSE 0,
              IF pos[3] < -Z_LIM THEN LIM_FACTOR ELSE 0>>
        boundsCorrectionMore ==
            <<IF pos[1] > X_LIM THEN -LIM_FACTOR ELSE 0,
              IF pos[2] > Y_LIM THEN -LIM_FACTOR ELSE 0,
              IF pos[3] > Z_LIM THEN -LIM_FACTOR ELSE 0>>
    IN  add(boundsCorrectionLess, boundsCorrectionMore)

withinAlignmentLimit_default(insect, alignmentInsects, v) ==
    \/ Cardinality(alignmentInsects) = 0
    \/ angleBelowNoiseAngle(v[insect],
                            calculateAverageVelocity(alignmentInsects, v))

(* lines 223-229: false unless there are neighbours and the misalignment is *)
(* below NOISE_ANGLE                                                        *)
withinAlignmentLimit(insect, alignmentInsects, v) ==
    /\ Cardinality(alignmentInsects) > 0
    /\ angleBelowNoiseAngle(v[insect],
                            calculateAverageVelocity(alignmentInsects, v))

(* random is the vector that randomDirection() and                          *)
(* setLength(Math.random() * VELOCITY_LIM) produce when they are called     *)
getNoiseAlignmentCorrections(insect, insectList, p, v, random) ==
    LET alignmentInsects ==
            getInsectsWithinDistance(insect, insectList, ALIGNMENT_RADIUS, p)
        alignmentVector ==
            IF ~withinAlignmentLimit(insect, alignmentInsects, v)
            THEN random
            ELSE Zero
    IN  multiplyScalar(alignmentVector, NOISE_FACTOR)

(* The calls of lines 256-260 for one insect: what they are computed from   *)
(* (the positions and velocities of all insects at that time, the vector    *)
(* the random source yields), the neighbour lists of the three radii and    *)
(* the five corrections.                                                    *)
Computed(insect, insectList, p, v, random) ==
    [done |-> TRUE,
     seenPosition |-> p,
     seenVelocities |-> v,
     random |-> random,
     separationInsects |->
         getInsectsWithinDistance(insect, insectList, SEPARATION_RADIUS, p),
     alignmentInsects |->
         getInsectsWithinDistance(insect, insectList, ALIGNMENT_RADIUS, p),
     coherenceInsects |->
         getInsectsWithinDistance(insect, insectList, COHESION_RADIUS, p),
     separation |-> getSeparationCorrection(insect, insectList, p),
     alignment |-> getAlignmentCorrection(insect, insectList, p, v),
     coherence |-> getCoherenceCorrection(insect, insectList, p),
     bounds |-> getBoundsCorrection(p[insect]),
     noise |-> getNoiseAlignmentCorrections(insect, insectList, p, v, random)]

(* lines 255-262, given the corrections c computed for the insect *)
getNewVelocity(oldVelocity, c) ==
    clampLength(
        add(add(add(add(add(oldVelocity, c.separation), c.alignment),
                    c.coherence),
                c.bounds),
            c.noise),
        VELOCITY_LIM)

----------------------------------------------------------------------------
(* updatePositions *)

insectsMinusOne_all(insect) == Insects

(* line 274: the list without the insect itself, compared by id *)
insectsMinusOne(insect) == {i \in Insects : i # insect}

integrate_backwards(oldPosition, newVelocity) == subVectors(oldPosition, newVelocity)

(* lines 277-281: newPosition.addVectors(oldPosition, newVelocity) is       *)
(* copied into insect.position; lookAt only turns the mesh                  *)
integrate(oldPosition, newVelocity) == add(oldPosition, newVelocity)

NotComputed == [done |-> FALSE]

(* The forEach of lines 273-282 from insect k on: each insect's velocity    *)
(* and position are stored before the next insect is looked at.             *)
RECURSIVE updateFrom(_, _, _, _, _)
updateFrom(k, p, v, a, random) ==
    IF k > INSECT_COUNT
    THEN [position |-> p, insectVelocities |-> v, applied |-> a]
    ELSE LET c == Computed(k, insectsMinusOne(k), p, v, random[k])
             newVelocity == getNewVelocity(v[k], c)
         IN  updateFrom(k + 1,
                        [p EXCEPT ![k] = integrate(p[k], newVelocity)],
                        [v EXCEPT ![k] = newVelocity],
                        [a EXCEPT ![k] = c],
                        random)

updatePositions(p, v, random) ==
    updateFrom(1, p, v, [k \in Insects |-> NotComputed], random)

----------------------------------------------------------------------------
(* Main script *)

(* Start states drawn for an insect: a position in the box                  *)
(* [-LIM, LIM) of each axis and velocity components in                      *)
(* [-VELOCITY_LIM, VELOCITY_LIM), lines 298-308.                            *)
Starts ==
    { [position |-> <<0, 0, 0>>,             velocity |-> <<0, 0, 0>>],
      [position |-> <<304, 0, 0>>,           velocity |-> <<0, 0, 0>>],
      [position |-> <<-2690, 1450, -1500>>,  velocity |-> <<-24, 24, 0>>],
      [position |-> <<0, 1200, 0>>,          velocity |-> <<0, 29, 0>>],
      [position |-> <<300, 1200, 0>>,        velocity |-> <<0, -30, 0>>] }

(* Vectors drawn by randomDirection() and setLength(Math.random() *         *)
(* VELOCITY_LIM): any direction, a length in [0, VELOCITY_LIM).             *)
NoiseDraws == { <<0, 0, 0>>, <<-12, 16, 0>> }

Init ==
    \E s \in [Insects -> Starts] :
        /\ position = [k \in Insects |-> s[k].position]
        /\ insectVelocities = [k \in Insects |-> s[k].velocity]
        /\ stepCounter = 0
        /\ frames = 0
        /\ prePosition = [k \in Insects |-> s[k].position]
        /\ preVelocities = [k \in Insects |-> s[k].velocity]
        /\ applied = [k \in Insects |-> NotComputed]

budgetLeft_inclusive(counter) == counter <= STEPS

(* line 315 *)
budgetLeft(counter) == counter < STEPS

(* One animation frame, lines 312-321.  prePosition, preVelocities and      *)
(* applied remember the last step performed.                                *)
animate ==
    /\ frames < MaxFrames
    /\ frames' = frames + 1
    /\ IF budgetLeft(stepCounter)
       THEN \E random \in [Insects -> NoiseDraws] :
                \E r \in {updatePositions(position, insectVelocities, random)} :
                    /\ position' = r.position
                    /\ insectVelocities' = r.insectVelocities
                    /\ applied' = r.applied
                    /\ prePosition' = position
                    /\ preVelocities' = insectVelocities
                    /\ stepCounter' = stepCounter + 1
       ELSE UNCHANGED <<position, insectVelocities, stepCounter,
                        prePosition, preVelocities, applied>>

Next == animate

Spec == Init /\ [][Next]_vars

----------------------------------------------------------------------------
(* Properties.  Stepped: at least one step has been performed, so applied,  *)
(* prePosition and preVelocities describe the last step.                    *)

Stepped == stepCounter >= 1
Lim == <<X_LIM, Y_LIM, Z_LIM>>
Axes == 1..3
Radii == {SEPARATION_RADIUS, ALIGNMENT_RADIUS, COHESION_RADIUS}

(* C1: after every completed step the magnitude of every insect's stored    *)
(* velocity is at most VELOCITY_LIM, whatever it was before the step.       *)
C1_VelocityClamped ==
    Stepped =>
        \A k \in Insects :
            lengthSq(insectVelocities[k]) <= VELOCITY_LIM * VELOCITY_LIM

(* a step has clamped a velocity that was longer than VELOCITY_LIM *)
C1_Witness ==
    /\ Stepped
    /\ \E k \in Insects :
           /\ lengthSq(preVelocities[k]) > VELOCITY_LIM * VELOCITY_LIM
           /\ lengthSq(insectVelocities[k]) <= VELOCITY_LIM * VELOCITY_LIM

(* C2: within a step every insect's new velocity and position are computed  *)
(* from the positions and velocities all insects had before the step.       *)
C2_SnapshotStep ==
    Stepped =>
        \A k \in Insects :
            LET c == Computed(k, insectsMinusOne(k), prePosition,
                              preVelocities, applied[k].random)
                newVelocity == getNewVelocity(preVelocities[k], c)
            IN  /\ insectVelocities[k] = newVelocity
                /\ position[k] = add(prePosition[k], newVelocity)

(* C3: a step is performed only while fewer than STEPS steps have been      *)
(* performed, so at most STEPS steps run, and a frame after the budget is   *)
(* exhausted changes no step counter, position or velocity.                 *)
C3_StepBudget ==
    /\ [](stepCounter <= STEPS)
    /\ [][/\ stepCounter' # stepCounter =>
                 /\ stepCounter < STEPS
                 /\ stepCounter' = stepCounter + 1
          /\ stepCounter >= STEPS =>
                 UNCHANGED <<stepCounter, position, insectVelocities>>
          /\ stepCounter' = stepCounter =>
                 UNCHANGED <<position, insectVelocities>>]_vars

(* a frame has run after the budget was exhausted *)
C3_Witness ==
    /\ stepCounter = STEPS
    /\ frames > STEPS

(* C4: the positions after a step are determined by the configuration and   *)
(* the state before it; the program holds no seed or generator state, so    *)
(* two runs in the same state must agree whatever the random source yields. *)
C4_Deterministic ==
    budgetLeft(stepCounter) =>
        \A r1, r2 \in [Insects -> NoiseDraws] :
            updatePositions(position, insectVelocities, r1).position
                = updatePositions(position, insectVelocities, r2).position

(* C5: the alignment correction of an insect with a neighbour within        *)
(* ALIGNMENT_RADIUS is ALIGNMENT_FACTOR times the neighbours' average       *)
(* velocity, and zero without a neighbour.                                  *)
C5_AlignmentIsScaledAverage ==
    Stepped =>
        \A k \in Insects :
            applied[k].alignment =
                IF applied[k].alignmentInsects # {}
                THEN multiplyScalar(
                         calculateAverageVelocity(applied[k].alignmentInsects,
                                                  applied[k].seenVelocities),
                         ALIGNMENT_FACTOR)
                ELSE Zero

(* C6: two insects in the box, SEPARATION_RADIUS < d < COHESION_RADIUS      *)
(* apart, both at rest, no noise (the random source yields the zero         *)
(* vector): in the first step each gets a zero separation correction and a  *)
(* cohesion correction toward the other, and moves toward the midpoint.     *)
C6_TwoInsectsApproach ==
    ( /\ INSECT_COUNT = 2
      /\ stepCounter = 1
      /\ \A k \in Insects :
             /\ preVelocities[k] = Zero
             /\ applied[k].random = Zero
             /\ \A ax \in Axes : /\ prePosition[k][ax] >= -Lim[ax]
                                 /\ prePosition[k][ax] <= Lim[ax]
      /\ distanceToSquared(prePosition[1], prePosition[2])
             > SEPARATION_RADIUS * SEPARATION_RADIUS
      /\ distanceToSquared(prePosition[1], prePosition[2])
             < COHESION_RADIUS * COHESION_RADIUS )
    => \A k \in Insects : \A o \in Insects \ {k} :
           LET toOther == subVectors(prePosition[o], prePosition[k])
           IN  /\ applied[k].separation = Zero
               /\ dot(applied[k].coherence, toOther) > 0
               /\ dot(subVectors(position[k], prePosition[k]), toOther) > 0

(* The neighbours of insect k within range among the positions p: the      *)
(* other insects at a Euclidean distance of at most range.                  *)
Near(k, range, p) ==
    {j \in Insects :
        j # k /\ distanceToSquared(p[k], p[j]) <= range * range}

(* Insect k was misaligned when its noise correction was computed: it had   *)
(* no neighbour within ALIGNMENT_RADIUS, or its velocity made an angle of   *)
(* at least NOISE_ANGLE with the neighbours' average velocity.              *)
Misaligned(k) ==
    LET N == Near(k, ALIGNMENT_RADIUS, applied[k].seenPosition)
        w == applied[k].seenVelocities
    IN  \/ N = {}
        \/ ~angleBelowNoiseAngle(w[k], calculateAverageVelocity(N, w))

(* NOISE_FACTOR * VELOCITY_LIM, the factor being a percentage *)
BelowNoiseLimit(n) ==
    lengthSq(n) * 100 * 100
        < NOISE_FACTOR * NOISE_FACTOR * VELOCITY_LIM * VELOCITY_LIM

(* C7 as stated: a misaligned insect receives a non-zero noise correction   *)
(* of magnitude below NOISE_FACTOR * VELOCITY_LIM, an aligned insect        *)
(* exactly the zero vector.                                                 *)
C7_MisalignedNoiseNonZero ==
    Stepped =>
        \A k \in Insects :
            IF Misaligned(k)
            THEN /\ applied[k].noise # Zero
                 /\ BelowNoiseLimit(applied[k].noise)
            ELSE applied[k].noise = Zero

(* C7 as amended: a misaligned insect receives NOISE_FACTOR times the       *)
(* vector drawn from the random source, of magnitude below                  *)
(* NOISE_FACTOR * VELOCITY_LIM (zero when the drawn length is zero); an     *)
(* aligned insect receives exactly the zero vector.                         *)
C7_NoiseActivation ==
    Stepped =>
        \A k \in Insects :
            IF Misaligned(k)
            THEN /\ applied[k].noise
                        = multiplyScalar(applied[k].random, NOISE_FACTOR)
                 /\ BelowNoiseLimit(applied[k].noise)
            ELSE applied[k].noise = Zero

(* in one step an insect with a neighbour was misaligned and received       *)
(* non-zero noise, an isolated insect or a second misaligned one aside, and *)
(* an aligned insect received zero noise although the draw was not zero     *)
C7_Witness ==
    /\ Stepped
    /\ \E k \in Insects :
           /\ Misaligned(k)
           /\ applied[k].alignmentInsects # {}
           /\ applied[k].noise # Zero
    /\ \E k \in Insects :
           /\ ~Misaligned(k)
           /\ applied[k].random # Zero
           /\ applied[k].noise = Zero

(* C8: each component of the bounds correction is +LIM_FACTOR when the      *)
(* coordinate is strictly below the negative limit of the axis, -LIM_FACTOR *)
(* when it is strictly above the positive limit, and 0 otherwise.           *)
C8_BoundsPerAxis ==
    Stepped =>
        \A k \in Insects : \A ax \in Axes :
            LET x == applied[k].seenPosition[k][ax]
                b == applied[k].bounds[ax]
            IN  /\ x < -Lim[ax] => b = LIM_FACTOR
                /\ x > Lim[ax] => b = -LIM_FACTOR
                /\ (x >= -Lim[ax] /\ x <= Lim[ax]) => b = 0
                /\ Abs(b) \in {0, LIM_FACTOR}

(* an insect below the negative x limit, above the positive y limit and     *)
(* exactly on the negative z limit has had its bounds correction computed   *)
C8_Witness ==
    /\ Stepped
    /\ \E k \in Insects :
           LET x == applied[k].seenPosition[k]
           IN  /\ x[1] < -X_LIM /\ applied[k].bounds[1] = LIM_FACTOR
               /\ x[2] > Y_LIM /\ applied[k].bounds[2] = -LIM_FACTOR
               /\ x[3] = -Z_LIM /\ applied[k].bounds[3] = 0

(* C9: the neighbour list used for each radius is exactly the other insects *)
(* at a distance of at most the radius, never the insect itself, and being  *)
(* within a radius is symmetric.                                            *)
C9_NeighbourSets ==
    Stepped =>
        \A k \in Insects :
            LET p == applied[k].seenPosition
            IN  /\ applied[k].separationInsects = Near(k, SEPARATION_RADIUS, p)
                /\ applied[k].alignmentInsects = Near(k, ALIGNMENT_RADIUS, p)
                /\ applied[k].coherenceInsects = Near(k, COHESION_RADIUS, p)
                /\ k \notin applied[k].separationInsects
                             \cup applied[k].alignmentInsects
                             \cup applied[k].coherenceInsects
                /\ \A j \in Insects \ {k} : \A r \in Radii :
                       /\ withinDistance(p[k], p[j], r)
                              = withinDistance(p[j], p[k], r)
                       /\ (j \in getInsectsWithinDistance(
                                     k, insectsMinusOne(k), r, p))
                              = (k \in getInsectsWithinDistance(
                                           j, insectsMinusOne(j), r, p))

(* an insect had another insect at its own position, which was in its       *)
(* neighbour lists                                                          *)
C9_Witness ==
    /\ Stepped
    /\ \E k \in Insects : \E j \in Insects \ {k} :
           /\ applied[k].seenPosition[j] = applied[k].seenPosition[k]
           /\ j \in applied[k].separationInsects

(* C10: after a step each insect's position is its position before the     *)
(* step plus its stored velocity, so it moved at most VELOCITY_LIM; the set *)
(* of insects is unchanged and each has exactly one stored velocity.        *)
C10_UnitTimeStep ==
    /\ DOMAIN position = Insects
    /\ DOMAIN insectVelocities = Insects
    /\ Stepped =>
           \A k \in Insects :
               /\ position[k] = add(prePosition[k], insectVelocities[k])
               /\ distanceToSquared(position[k], prePosition[k])
                      <= VELOCITY_LIM * VELOCITY_LIM

(* a step has moved an insect *)
C10_Witness ==
    /\ Stepped
    /\ \E k \in Insects :
           /\ insectVelocities[k] # Zero
           /\ position[k] # prePosition[k]

====
